---- MODULE Spec2Model ----
(***************************************************************************)
(* Model of cogs/help.py: the help command of the bot (MyHelp), the        *)
(* category dropdown (Dropdown / DropdownView) and get_help.               *)
(*                                                                         *)
(* The host framework's registry (bot.cogs, the commands of each cog) and  *)
(* its permission filter are the environment; their contents are the data  *)
(* tables below.  A message is the pair (embed, view) the chat platform    *)
(* keeps for a sent message.                                               *)
(***************************************************************************)
EXTENDS Integers, Sequences, FiniteSets, TLC

VARIABLES
    cogs,   \* bot.cogs: the names of the registered cogs, in registration order
    msgs,   \* the messages sent to the destination channel, oldest first
    last    \* what the most recent invocation did

vars == <<cogs, msgs, last>>

(***************************************************************************)
(* Bounds                                                                  *)
(***************************************************************************)
MaxMsgs == 1         \* messages kept in the channel
MaxRate == 2         \* largest cooldown rate drawn
MaxPerTenths == 16   \* largest cooldown window drawn, in tenths of a second

(***************************************************************************)
(* Python values                                                           *)
(***************************************************************************)
PyNone == "<None>"

\* `x or d`: d when x is None or the empty string
Or(x, d) == IF x = PyNone \/ x = "" THEN d ELSE x

\* str(v), as Embed.add_field applies it to a field value
Str(v) == IF v = PyNone THEN "None" ELSE v

Range(s) == {s[i] : i \in 1..Len(s)}

(***************************************************************************)
(* The host's registry: cogs and commands                                  *)
(***************************************************************************)
CogNames == {"Help", "Admin", "Fun", "Close"}

\* the cogs that setup() and the bot's start register; the others are
\* extensions loaded and unloaded while the bot runs
StartCogs == <<"Help", "Admin">>

Extensions == {"Fun", "Close"}

\* description: Cog.description; doc: the class's __doc__; commands: get_commands()
CogInfo ==
    [c \in CogNames |->
        CASE c = "Help"  -> [description |-> "The Help Menu Cog",
                             doc |-> "The Help Menu Cog", commands |-> <<>>]
          [] c = "Admin" -> [description |-> "", doc |-> PyNone,
                             commands |-> <<"ban">>]
          [] c = "Fun"   -> [description |-> "Games", doc |-> "Games and toys",
                             commands |-> <<"roll", "secret", "cfg">>]
          [] c = "Close" -> [description |-> "Shutdown", doc |-> "Shutdown",
                             commands |-> <<"bye">>]]

\* the commands registered with no cog
Uncategorized == <<"ping">>

Commands == {"roll", "secret", "cfg", "cfg set", "cfg get", "ban", "bye", "ping"}

\* sig: get_command_signature(command); brief, help: the short and the long
\* help text; hidden: the visibility flag; cog: the owning cog's name;
\* commands: the children of a group
CommandInfo ==
    [c \in Commands |->
        CASE c = "roll"    -> [sig |-> "!roll [sides]", brief |-> "Roll a die",
                               help |-> "Roll a die with the given sides",
                               hidden |-> FALSE, cog |-> "Fun", commands |-> <<>>]
          [] c = "secret"  -> [sig |-> "!secret", brief |-> "", help |-> PyNone,
                               hidden |-> TRUE, cog |-> "Fun", commands |-> <<>>]
          [] c = "cfg"     -> [sig |-> "!cfg", brief |-> PyNone, help |-> "",
                               hidden |-> FALSE, cog |-> "Fun",
                               commands |-> <<"cfg set", "cfg get">>]
          [] c = "cfg set" -> [sig |-> "!cfg set <key>", brief |-> "Set a key",
                               help |-> "Set a key", hidden |-> FALSE,
                               cog |-> "Fun", commands |-> <<>>]
          [] c = "cfg get" -> [sig |-> "!cfg get <key>", brief |-> PyNone,
                               help |-> PyNone, hidden |-> FALSE,
                               cog |-> "Fun", commands |-> <<>>]
          [] c = "ban"     -> [sig |-> "!ban <member>", brief |-> PyNone,
                               help |-> PyNone, hidden |-> FALSE,
                               cog |-> "Admin", commands |-> <<>>]
          [] c = "bye"     -> [sig |-> "!bye", brief |-> "Stop the bot",
                               help |-> "Stop the bot", hidden |-> FALSE,
                               cog |-> "Close", commands |-> <<>>]
          [] c = "ping"    -> [sig |-> "!ping", brief |-> "", help |-> "Pong",
                               hidden |-> FALSE, cog |-> PyNone,
                               commands |-> <<>>]]

Groups == {c \in Commands : CommandInfo[c].commands # <<>>}

Invokers == {"admin", "user", "guest"}

\* the commands whose checks fail for an invoker
Denied ==
    [i \in Invokers |->
        CASE i = "admin" -> {}
          [] i = "user"  -> {"ban", "cfg set"}
          [] i = "guest" -> Commands]

\* HelpCommand.filter_commands: the commands that are not hidden and that the
\* invoker can run, in their order
FilterCommands(inv, commands) ==
    SelectSeq(commands, LAMBDA c : ~CommandInfo[c].hidden /\ c \notin Denied[inv])

\* the outcomes of `await command.can_run(ctx)`: a truth value, a
\* commands.CommandError, or any other exception
Outcomes == {"true", "false", "CommandError", "OtherError"}

NoCooldown == [has |-> FALSE, rate |-> 0, per |-> 0]

\* command._buckets._cooldown: None, or a rate over a window (per, in tenths
\* of a second)
Cooldowns ==
    {NoCooldown} \cup
    [has : {TRUE}, rate : 1..MaxRate, per : 0..MaxPerTenths]

(***************************************************************************)
(* Panels (embeds), views and messages                                     *)
(***************************************************************************)
BotDisplayName == "Melody"   \* ctx.me.display_name
BotUserName == "Connie"      \* bot.user.name

FooterText ==
    "Use help [command] or help [category] for more information | <> is required | [] is optional"

\* discord.Embed(title=..., description=...) with no author, footer or field
Embed(title, description) ==
    [title |-> title, description |-> description, author |-> PyNone,
     footer |-> PyNone, fields |-> <<>>]

\* HelpEmbed(**kwargs): an Embed with the standing footer
HelpEmbed(title, description) ==
    [Embed(title, description) EXCEPT !.footer = FooterText]

\* embed.add_field(name=..., value=...)
AddField(embed, name, value) ==
    [embed EXCEPT !.fields = Append(@, [name |-> name, value |-> Str(value)])]

HasField(embed, name) == \E i \in 1..Len(embed.fields) : embed.fields[i].name = name

FieldValues(embed, name) ==
    {embed.fields[i].value : i \in {j \in 1..Len(embed.fields) : embed.fields[j].name = name}}

\* view=None
NoView == [attached |-> FALSE, options |-> <<>>]

\* DropdownView(options, ctx): a view holding one Dropdown with these labels
DropdownView(options) == [attached |-> TRUE, options |-> options]

\* a send that posts the message twice
SendTwice(ms, embed, view) ==
    Append(Append(ms, [embed |-> embed, view |-> view]), [embed |-> embed, view |-> view])

\* MyHelp.send: one message to the destination
Send(ms, embed, view) == Append(ms, [embed |-> embed, view |-> view])

(***************************************************************************)
(* send_bot_help                                                           *)
(***************************************************************************)
\* the mapping the host passes: every registered cog with its commands, in
\* registration order, then the commands without a cog under the key None
BotMapping(cs) ==
    [i \in 1..(Len(cs) + 1) |->
        IF i <= Len(cs)
        THEN [cog |-> cs[i], commands |-> CogInfo[cs[i]].commands]
        ELSE [cog |-> PyNone, commands |-> Uncategorized]]

\* the loop over mapping.items(): an option for every entry whose filtered
\* commands are not empty
RECURSIVE CategoryOptions(_, _)
CategoryOptions(inv, mapping) ==
    IF mapping = <<>> THEN <<>>
    ELSE LET entry == Head(mapping)
             name  == IF entry.cog # PyNone THEN entry.cog ELSE "No Category"
         IN  IF FilterCommands(inv, entry.commands) # <<>>
             THEN <<name>> \o CategoryOptions(inv, Tail(mapping))
             ELSE CategoryOptions(inv, Tail(mapping))

\* myoptions when the message is sent
RootOptions(inv, mapping) == Append(CategoryOptions(inv, mapping), "Close")

RootPanel == HelpEmbed(BotDisplayName \o " Help", PyNone)

(***************************************************************************)
(* send_command_help                                                       *)
(***************************************************************************)
\* a with block that suppresses nothing
PropagatesEvery(outcome) == outcome \in {"CommandError", "OtherError"}

\* contextlib.suppress(commands.CommandError): does the exception leave the
\* with block?
Propagates(outcome) == outcome = "OtherError"

\* can_run after the with block
Usable(outcome) == IF outcome = "true" THEN "Yes" ELSE "No"

\* a window cut to its whole seconds, as int(per) would
FormatPerTruncated(t) == t \div 10

\* f"{per:.0f}" of a window of t tenths of a second: the nearest integer,
\* a tie going to the even one
FormatPer(t) ==
    LET q == t \div 10
        r == t % 10
    IN  IF r < 5 THEN q
        ELSE IF r > 5 THEN q + 1
        ELSE IF q % 2 = 0 THEN q ELSE q + 1

\* f"{cooldown.rate} per {cooldown.per:.0f} seconds"
CooldownText(cd) ==
    ToString(cd.rate) \o " per " \o ToString(FormatPer(cd.per)) \o " seconds"

CommandPanel(command, outcome, cd) ==
    LET info == CommandInfo[command]
        e0 == HelpEmbed(info.sig, Or(info.brief, "No help found..."))
        e1 == IF info.cog # PyNone THEN AddField(e0, "Category", info.cog) ELSE e0
        e2 == AddField(e1, "Usable", Usable(outcome))
    IN  IF cd.has THEN AddField(e2, "Cooldown", CooldownText(cd)) ELSE e2

(***************************************************************************)
(* send_help_embed, send_group_help, send_cog_help                         *)
(***************************************************************************)
RECURSIVE AddCommandFields(_, _)
AddCommandFields(embed, commands) ==
    IF commands = <<>> THEN embed
    ELSE AddCommandFields(
             AddField(embed, CommandInfo[Head(commands)].sig,
                      Or(CommandInfo[Head(commands)].brief, "No help found...")),
             Tail(commands))

HelpEmbedPanel(inv, title, description, commands) ==
    AddCommandFields(HelpEmbed(title, Or(description, "No help found...")),
                     FilterCommands(inv, commands))

GroupPanel(inv, group) ==
    HelpEmbedPanel(inv, CommandInfo[group].sig, CommandInfo[group].help,
                   CommandInfo[group].commands)

CogPanel(inv, cog) ==
    HelpEmbedPanel(inv, Or(cog, "No") \o " Category", CogInfo[cog].description,
                   CogInfo[cog].commands)

(***************************************************************************)
(* Dropdown.callback and get_help                                          *)
(***************************************************************************)
\* the markdown code span around a command name; the backquote is written as
\* an apostrophe
CodeSpan(name) == "'" \o name \o "'"

\* a loop that does not skip the hidden commands
RECURSIVE AddHelpFieldsHidden(_, _)
AddHelpFieldsHidden(embed, commands) ==
    IF commands = <<>> THEN embed
    ELSE AddHelpFieldsHidden(
             AddField(embed, CodeSpan(Head(commands)), CommandInfo[Head(commands)].help),
             Tail(commands))

RECURSIVE AddHelpFields(_, _)
AddHelpFields(embed, commands) ==
    IF commands = <<>> THEN embed
    ELSE LET c == Head(commands)
             e == IF ~CommandInfo[c].hidden
                  THEN AddField(embed, CodeSpan(c), CommandInfo[c].help)
                  ELSE embed
         IN  AddHelpFields(e, Tail(commands))

GetHelpPanel(cog) ==
    AddHelpFields(
        [Embed(cog \o " - Commands", CogInfo[cog].doc) EXCEPT !.author = "Help System"],
        CogInfo[cog].commands)

ClosePanel == [Embed(BotUserName \o " Help", "") EXCEPT !.footer = FooterText]

\* the loop over bot.cogs: the first cog equal to the label, or None
RECURSIVE MatchCog(_, _)
MatchCog(label, cs) ==
    IF cs = <<>> THEN PyNone
    ELSE IF label = Head(cs) THEN Head(cs)
    ELSE MatchCog(label, Tail(cs))

\* an edit that also passes view=None
EditEmbedDropView(m, embed) == [embed |-> embed, view |-> NoView]

\* interaction.response.edit_message(embed=emb): the view is not passed and
\* stays as it is
EditEmbed(m, embed) == [m EXCEPT !.embed = embed]

\* interaction.response.edit_message(embed=embede, view=None)
EditEmbedAndView(m, embed, view) == [embed |-> embed, view |-> view]

(***************************************************************************)
(* State machine                                                           *)
(***************************************************************************)
\* the record of an invocation: the operation, the invoking user, its
\* argument, the message it sent or edited (0: none), the number of messages
\* it sent and of edits it made, the cog get_help was called for, the
\* outcome of can_run and the cooldown of the command, and whether an
\* exception left the handler
Idle ==
    [op |-> "init", inv |-> PyNone, arg |-> PyNone, msg |-> 0, sends |-> 0,
     edits |-> 0, invoked |-> PyNone, outcome |-> PyNone,
     cooldown |-> NoCooldown, raised |-> FALSE]

Init ==
    /\ cogs = StartCogs
    /\ msgs = <<>>
    /\ last = Idle

\* bot.add_cog
LoadCog(c) ==
    /\ c \notin Range(cogs)
    /\ cogs' = Append(cogs, c)
    /\ last' = [Idle EXCEPT !.op = "load"]
    /\ UNCHANGED msgs

\* bot.remove_cog
UnloadCog(c) ==
    /\ c \in Range(cogs)
    /\ cogs' = SelectSeq(cogs, LAMBDA x : x # c)
    /\ last' = [Idle EXCEPT !.op = "unload"]
    /\ UNCHANGED msgs

\* `help`
SendBotHelp(inv) ==
    /\ Len(msgs) < MaxMsgs
    /\ msgs' = Send(msgs, RootPanel, DropdownView(RootOptions(inv, BotMapping(cogs))))
    /\ last' = [Idle EXCEPT !.op = "root", !.inv = inv, !.msg = Len(msgs'),
                            !.sends = Len(msgs') - Len(msgs)]
    /\ UNCHANGED cogs

\* `help <command>`; outcome is what can_run does for the invoking user
SendCommandHelp(command, outcome, cd) ==
    /\ Len(msgs) < MaxMsgs
    /\ msgs' = IF Propagates(outcome) THEN msgs
               ELSE Send(msgs, CommandPanel(command, outcome, cd), NoView)
    /\ last' = [Idle EXCEPT !.op = "command", !.arg = command,
                            !.msg = IF Propagates(outcome) THEN 0 ELSE Len(msgs'),
                            !.sends = Len(msgs') - Len(msgs),
                            !.outcome = outcome, !.cooldown = cd,
                            !.raised = Propagates(outcome)]
    /\ UNCHANGED cogs

\* `help <group>`
SendGroupHelp(inv, group) ==
    /\ Len(msgs) < MaxMsgs
    /\ msgs' = Send(msgs, GroupPanel(inv, group), NoView)
    /\ last' = [Idle EXCEPT !.op = "group", !.inv = inv, !.arg = group,
                            !.msg = Len(msgs'), !.sends = Len(msgs') - Len(msgs)]
    /\ UNCHANGED cogs

\* `help <category>`
SendCogHelp(inv, cog) ==
    /\ Len(msgs) < MaxMsgs
    /\ cog \in Range(cogs)
    /\ msgs' = Send(msgs, CogPanel(inv, cog), NoView)
    /\ last' = [Idle EXCEPT !.op = "cog", !.inv = inv, !.arg = cog,
                            !.msg = Len(msgs'), !.sends = Len(msgs') - Len(msgs)]
    /\ UNCHANGED cogs

\* the user inv selects option k of the dropdown of message i
Callback(inv, i, k) ==
    /\ i \in 1..Len(msgs)
    /\ msgs[i].view.attached
    /\ k \in 1..Len(msgs[i].view.options)
    /\ LET label == msgs[i].view.options[k]
           cog   == MatchCog(label, cogs)
       IN  /\ msgs' = IF cog # PyNone
                      THEN [msgs EXCEPT ![i] = EditEmbed(@, GetHelpPanel(cog))]
                      ELSE IF label = "Close"
                      THEN [msgs EXCEPT ![i] = EditEmbedAndView(@, ClosePanel, NoView)]
                      ELSE msgs
           /\ last' = [Idle EXCEPT !.op = "callback", !.inv = inv, !.arg = label,
                                   !.msg = i,
                                   !.sends = Len(msgs') - Len(msgs),
                                   !.edits = IF cog # PyNone \/ label = "Close"
                                             THEN 1 ELSE 0,
                                   !.invoked = cog]
    /\ UNCHANGED cogs

\* the commands `help <command>` is asked for: one of a cog with a short
\* help text, one of no cog with an empty one, one of a cog with none
ExampleCommands == {"roll", "ping", "ban"}

\* the cooldowns drawn where the window is not what is examined
ExampleCooldowns == {NoCooldown, [has |-> TRUE, rate |-> 1, per |-> 50]}

Next ==
    \/ \E c \in Extensions : LoadCog(c)
    \/ \E c \in Extensions : UnloadCog(c)
    \/ \E inv \in Invokers : SendBotHelp(inv)
    \/ \E command \in ExampleCommands, outcome \in Outcomes, cd \in ExampleCooldowns :
           SendCommandHelp(command, outcome, cd)
    \/ \E inv \in Invokers, group \in Groups : SendGroupHelp(inv, group)
    \/ \E inv \in Invokers, cog \in CogNames : SendCogHelp(inv, cog)
    \/ \E inv \in Invokers, i \in 1..MaxMsgs, k \in 1..(Cardinality(CogNames) + 2) :
           Callback(inv, i, k)

Spec == Init /\ [][Next]_vars

\* send_command_help alone, over every cooldown window, with a can_run that
\* answers
NextCommand ==
    \E command \in ExampleCommands, outcome \in {"true", "false"},
       cd \in Cooldowns \cup ExampleCooldowns :
        SendCommandHelp(command, outcome, cd)

SpecCommand == Init /\ [][NextCommand]_vars

(***************************************************************************)
(* Properties                                                              *)
(***************************************************************************)
Abs(n) == IF n < 0 THEN -n ELSE n

NoHelpFound == "No help found..."

\* the short help text is empty or absent
EmptyHelp(c) == CommandInfo[c].brief \in {PyNone, ""}

\* the display names of the categories with a command the invoker may see
VisibleCategories(inv, cs) ==
    {c \in Range(cs) : \E k \in Range(CogInfo[c].commands) :
                           ~CommandInfo[k].hidden /\ k \notin Denied[inv]}
    \cup (IF \E k \in Range(Uncategorized) :
                 ~CommandInfo[k].hidden /\ k \notin Denied[inv]
          THEN {"No Category"} ELSE {})

\* the commands of a cog that are not hidden, in their order
Unhidden(cog) == SelectSeq(CogInfo[cog].commands, LAMBDA c : ~CommandInfo[c].hidden)

FieldCount(embed, name) ==
    Cardinality({i \in 1..Len(embed.fields) : embed.fields[i].name = name})

\* C1: the Selector sent by send_bot_help offers one label per category with
\* a visible command, then "Close": "Close" is last, no label appears twice,
\* no other category is offered, and with no visible category the labels
\* are exactly <<"Close">>.
C1_RootOptions ==
    last.op = "root" =>
        LET opts    == msgs[last.msg].view.options
            visible == VisibleCategories(last.inv, cogs)
        IN  /\ msgs[last.msg].view.attached
            /\ opts[Len(opts)] = "Close"
            /\ Range(opts) = visible \cup {"Close"}
            /\ Len(opts) = Cardinality(visible) + 1
            /\ (visible = {} => opts = <<"Close">>)
            /\ \A i, j \in 1..Len(opts) : i # j => opts[i] # opts[j]

\* C2 as stated: after a category label was selected and shown, the message
\* no longer carries the Selector.
C2_SelectorRemoved ==
    (last.op = "callback" /\ last.invoked # PyNone) =>
        ~msgs[last.msg].view.attached

\* C2 as amended: after a category label was selected the message shows that
\* category's panel and still carries the Selector, so that it accepts
\* further selections; only the edit of the Close branch removes it.
C2_SelectorStays ==
    last.op = "callback" =>
        LET m == msgs[last.msg]
        IN  /\ last.invoked # PyNone =>
                   /\ m.view.attached
                   /\ Len(m.view.options) >= 1
                   /\ m.view.options[Len(m.view.options)] = "Close"
                   /\ m.embed.title = last.invoked \o " - Commands"
            /\ (last.invoked = PyNone /\ last.edits = 1) => ~m.view.attached

C2_Witness ==
    /\ last.op = "callback"
    /\ last.invoked = "Fun"
    /\ msgs[last.msg].view.attached
    /\ msgs[last.msg].embed.title = "Fun - Commands"

\* C3: the callback for every label the Selector offers makes exactly one
\* edit of the message and sends no message.
C3_OneEdit ==
    last.op = "callback" => (last.edits = 1 /\ last.sends = 0)

\* C4: selecting "Close" leaves the message with the panel titled
\* "<bot name> Help", an empty description and no controls.
C4_Close ==
    (last.op = "callback" /\ last.arg = "Close") =>
        LET m == msgs[last.msg]
        IN  /\ m.embed.title = BotUserName \o " Help"
            /\ m.embed.description = ""
            /\ ~m.view.attached

\* C5: selecting an offered category label renders the category of exactly
\* that name, whatever happened to the registry since the root render.
C5_ExactCategory ==
    (last.op = "callback" /\ last.arg # "Close") => last.invoked = last.arg

\* C6 as stated: send_command_help always sends a panel with one "Usable"
\* field, "Yes" iff can_run returned true, whatever error can_run raises.
C6_AnyErrorSwallowed ==
    last.op = "command" =>
        /\ ~last.raised
        /\ last.sends = 1
        /\ FieldCount(msgs[last.msg].embed, "Usable") = 1
        /\ FieldValues(msgs[last.msg].embed, "Usable") =
               {IF last.outcome = "true" THEN "Yes" ELSE "No"}

\* C6 as amended: when can_run returns or raises a CommandError the panel is
\* sent with one "Usable" field, "Yes" iff can_run returned true, and a
\* command of no cog and no cooldown gets that field alone; any other
\* exception leaves send_command_help and no panel is sent.
C6_CommandErrorSwallowed ==
    last.op = "command" =>
        IF last.outcome = "OtherError"
        THEN last.raised /\ last.sends = 0
        ELSE /\ ~last.raised
             /\ last.sends = 1
             /\ LET e == msgs[last.msg].embed
                IN  /\ FieldCount(e, "Usable") = 1
                    /\ FieldValues(e, "Usable") =
                           {IF last.outcome = "true" THEN "Yes" ELSE "No"}
                    /\ (CommandInfo[last.arg].cog = PyNone /\ ~last.cooldown.has)
                           => (~HasField(e, "Category") /\ ~HasField(e, "Cooldown"))

C6_Witness ==
    /\ last.op = "command"
    /\ last.arg = "ping"
    /\ last.outcome = "CommandError"
    /\ ~last.cooldown.has
    /\ last.sends = 1
    /\ msgs[last.msg].embed.fields = <<[name |-> "Usable", value |-> "No"]>>

\* C7: wherever a command with an empty or absent short help text is shown,
\* "No help found..." stands for it: as the description of its own panel, as
\* its field in a group or category panel, and as its field in the panel
\* shown after a selection.
C7_NoHelpFound ==
    /\ (last.op = "command" /\ ~last.raised /\ EmptyHelp(last.arg)) =>
           msgs[last.msg].embed.description = NoHelpFound
    /\ last.op \in {"group", "cog"} =>
           LET shown == FilterCommands(last.inv,
                            IF last.op = "group" THEN CommandInfo[last.arg].commands
                            ELSE CogInfo[last.arg].commands)
               e == msgs[last.msg].embed
           IN  /\ Len(e.fields) = Len(shown)
               /\ \A i \in 1..Len(shown) :
                      EmptyHelp(shown[i]) => e.fields[i].value = NoHelpFound
    /\ (last.op = "callback" /\ last.invoked # PyNone) =>
           LET shown == Unhidden(last.invoked)
               e == msgs[last.msg].embed
           IN  /\ Len(e.fields) = Len(shown)
               /\ \A i \in 1..Len(shown) :
                      EmptyHelp(shown[i]) => e.fields[i].value = NoHelpFound

\* C8: the command panel has a "Cooldown" field iff the command has a
\* cooldown; its value is "<rate> per <w> seconds" with w a whole number of
\* seconds nearest to the window.
C8_Cooldown ==
    (last.op = "command" /\ ~last.raised) =>
        LET e  == msgs[last.msg].embed
            cd == last.cooldown
        IN  IF cd.has
            THEN /\ FieldCount(e, "Cooldown") = 1
                 /\ \E w \in 0..(cd.per \div 10 + 1) :
                        /\ Abs(10 * w - cd.per) <= 5
                        /\ FieldValues(e, "Cooldown") =
                               {ToString(cd.rate) \o " per " \o ToString(w) \o " seconds"}
            ELSE FieldCount(e, "Cooldown") = 0

C8_Witness ==
    /\ last.op = "command"
    /\ last.cooldown = [has |-> TRUE, rate |-> 1, per |-> 50]
    /\ FieldValues(msgs[last.msg].embed, "Cooldown") = {"1 per 5 seconds"}

\* C9 as stated: every dispatcher invocation sends exactly one panel.
C9_OnePanel ==
    last.op \in {"root", "command", "group", "cog"} => last.sends = 1

\* the panels an edit can put in place
EditPanels == {ClosePanel} \cup {GetHelpPanel(c) : c \in CogNames}

\* C9 as amended: a dispatcher invocation sends exactly one panel, also for
\* a root mapping with no visible category and for a group or category with
\* no visible command, unless an exception left it, which only happens in
\* send_command_help when can_run raises an error that is no CommandError,
\* and then it sends none; a sent message is never removed, and its panel
\* either stays as it is or is replaced by a whole new panel.
C9_OnePanelUnlessRaised ==
    /\ [](/\ last.op \in {"root", "command", "group", "cog"} =>
                last.sends = (IF last.raised THEN 0 ELSE 1)
          /\ last.raised => (last.op = "command" /\ last.outcome = "OtherError")
          /\ last.op \notin {"root", "command", "group", "cog"} => last.sends = 0)
    /\ [][\A i \in 1..Len(msgs) :
              /\ i <= Len(msgs')
              /\ \/ msgs'[i] = msgs[i]
                 \/ /\ msgs'[i].embed \in EditPanels
                    /\ last'.op = "callback"
                    /\ last'.msg = i]_vars

C9_Witness ==
    /\ last.op = "root"
    /\ last.sends = 1
    /\ msgs[last.msg].view.options = <<"Close">>
    /\ msgs[last.msg].embed = RootPanel

\* C10 as stated: the panel shown after selecting a category is the one
\* send_cog_help produces for it: the same title, description and fields.
C10_SameAsCogHelp ==
    (last.op = "callback" /\ last.invoked # PyNone) =>
        LET e == msgs[last.msg].embed
            q == CogPanel(last.inv, last.invoked)
        IN  /\ e.title = q.title
            /\ e.description = q.description
            /\ Range(e.fields) = Range(q.fields)

\* C10 as amended: the panel shown after selecting category C is get_help's
\* own: title "<C> - Commands", description the cog's docstring (none when it
\* has none), author "Help System", no footer, and one field per command of
\* C that is not hidden, whoever may run it, named by the command's name in
\* a code span and holding str() of its long help text.
C10_GetHelpPanel ==
    (last.op = "callback" /\ last.invoked # PyNone) =>
        LET e == msgs[last.msg].embed
            shown == Unhidden(last.invoked)
        IN  /\ e.title = last.invoked \o " - Commands"
            /\ e.description = CogInfo[last.invoked].doc
            /\ e.author = "Help System"
            /\ e.footer = PyNone
            /\ Len(e.fields) = Len(shown)
            /\ \A i \in 1..Len(shown) :
                   e.fields[i] =
                       [name |-> "'" \o shown[i] \o "'",
                        value |-> IF CommandInfo[shown[i]].help = PyNone THEN "None"
                                  ELSE CommandInfo[shown[i]].help]

C10_Witness ==
    /\ last.op = "callback"
    /\ last.invoked = "Fun"
    /\ last.inv = "user"
    /\ msgs[last.msg].embed.title = "Fun - Commands"
    /\ Len(msgs[last.msg].embed.fields) = 2
    /\ Len(CogPanel(last.inv, "Fun").fields) = 2

====
